---------------------------- MODULE Spec2Model ----------------------------
(***************************************************************************)
(* Homomorphic Battleship (src/game_modified.py): two players, each with a *)
(* 10x10 board, a fleet of five ships, a Paillier keypair and a per-cell   *)
(* encrypted board; main() sets both players up and then runs the turn     *)
(* loop, in which the defender answers each guess by a blinded decryption. *)
(***************************************************************************)
EXTENDS Integers, Sequences, FiniteSets, TLC

(***************************************************************************)
(* Bounds of the model (not program constants).                            *)
(***************************************************************************)
\* Bit length of each Paillier prime drawn by generate_keys (the library's
\* default modulus has 3072 bits; the model keeps the scheme and scales it).
PrimeBits == 3
\* Largest blinding factor the model's random source yields.  The program
\* draws from 1..999999 under a modulus of 3072 bits, so a factor is always
\* below the key's max_int; the model keeps that relation at its own scale.
MaxBlind == 2
\* Largest seed of the obfuscators encrypt_board draws.
MaxSeed == 0
\* Random draws of place_ship_random in the game: the free coordinate
\* (randint(0, 9)) is at most MaxLine, the start along the ship
\* (randint(0, 10 - size)) at most MaxOffset.
MaxLine == 3
MaxOffset == 0
\* The same for the specification of the setup of one board alone.
SetupMaxLine == 4
SetupMaxOffset == 0
\* Rejected (repeated) guesses per game.
MaxRejected == 1
\* How far behind the first unguessed cell a repeated guess may lie.
GuessBack == 1
\* Failed attempts of one place_ship_random call are counted up to this many.
MaxAttempts == 2

(***************************************************************************)
(* Program constants.                                                      *)
(***************************************************************************)
BoardSize == 10
BlindingMax == 999999
\* Bit length of n under paillier.generate_paillier_keypair() called without
\* arguments (line 49): the library's DEFAULT_KEYSIZE, 3072 in its current
\* release and 2048 in earlier ones; the smaller is taken.
DEFAULT_KEYSIZE == 2048

Alice == "Alice"
Bob == "Bob"
Players == {Alice, Bob}
player1 == Alice
player2 == Bob

Coord == 0 .. (BoardSize - 1)
Cells == Coord \X Coord

\* Player.__init__: the fleet manifest, in placement order.
Fleet ==
  << [name |-> "Carrier", size |-> 5],
     [name |-> "Battleship", size |-> 4],
     [name |-> "Cruiser", size |-> 3],
     [name |-> "Submarine", size |-> 2],
     [name |-> "Destroyer", size |-> 2] >>

NumShips == Len(Fleet)

RECURSIVE SumSizes(_)
SumSizes(i) == IF i = 0 THEN 0 ELSE Fleet[i].size + SumSizes(i - 1)

\* self.total_ship_cells = sum(ship.size for ship in self.ships)
total_ship_cells == SumSizes(NumShips)

None == "None"

(***************************************************************************)
(* The Paillier scheme behind paillier.generate_paillier_keypair,          *)
(* PaillierPublicKey.encrypt, EncryptedNumber.__mul__ and                  *)
(* PaillierPrivateKey.decrypt, computed as the library computes it.        *)
(***************************************************************************)
RECURSIVE powmod(_, _, _)
powmod(b, e, m) ==
  IF e = 0 THEN 1 % m
  ELSE IF e % 2 = 1 THEN (b * powmod(b, e - 1, m)) % m
  ELSE LET h == powmod(b, e \div 2, m) IN (h * h) % m

\* invert(a, m): the inverse of a modulo m.
invert(a, m) == CHOOSE x \in 0 .. (m - 1) : (a * x) % m = 1 % m

IsPrime(x) == x > 1 /\ \A d \in 2 .. (x - 1) : x % d # 0

RECURSIVE Pow2(_)
Pow2(i) == IF i = 0 THEN 1 ELSE 2 * Pow2(i - 1)

\* The primes of exactly `bits` bits.
PrimesOfBits(bits) == {x \in Pow2(bits - 1) .. (Pow2(bits) - 1) : IsPrime(x)}

\* PaillierPublicKey.max_int with room for the plaintext 1 only.
max_int_narrow(n) == 1

\* PaillierPublicKey: n, with g = n + 1, nsquare = n * n, max_int = n // 3 - 1.
nsquare(n) == n * n
max_int(n) == (n \div 3) - 1

\* PaillierPrivateKey.l_function
l_function(x, p) == (x - 1) \div p

\* PaillierPrivateKey.h_function, with g = n + 1
h_function(n, x) == invert(l_function(powmod(n + 1, x - 1, x * x), x), x)

\* PaillierPrivateKey.__init__: p < q, with hp, hq and p_inverse precomputed.
PaillierPrivateKey(p, q) ==
  LET lo == IF q < p THEN q ELSE p
      hi == IF q < p THEN p ELSE q
  IN  [p |-> lo, q |-> hi,
       p_inverse |-> invert(lo, hi),
       hp |-> h_function(p * q, lo),
       hq |-> h_function(p * q, hi)]

\* PaillierPrivateKey.raw_decrypt: decryption modulo p and q, joined by crt.
raw_decrypt(key, ciphertext) ==
  LET mp == (l_function(powmod(ciphertext, key.p - 1, key.p * key.p), key.p) * key.hp) % key.p
      mq == (l_function(powmod(ciphertext, key.q - 1, key.q * key.q), key.q) * key.hq) % key.q
      u == ((mq - mp) * key.p_inverse) % key.q
  IN  mp + u * key.p

\* PaillierPublicKey.raw_encrypt with obfuscator r.
raw_encrypt(n, plaintext, r) ==
  (((n * plaintext + 1) % nsquare(n)) * powmod(r, n, nsquare(n))) % nsquare(n)

\* EncodedNumber.encode of an integer (exponent 0).
encode(n, value) == value % n

\* EncodedNumber.decode: a value above max_int and below n - max_int is an
\* overflow (the library raises OverflowError).
Overflows(n, encoding) == encoding > max_int(n) /\ encoding < n - max_int(n)

decode(n, encoding) ==
  IF encoding <= max_int(n) THEN encoding ELSE encoding - n

\* EncryptedNumber.__mul__ by a non-negative scalar: c^k mod n^2.
raw_mul(n, ciphertext, scalar) == powmod(ciphertext, encode(n, scalar), nsquare(n))

RECURSIVE gcd(_, _)
gcd(a, b) == IF b = 0 THEN a ELSE gcd(b, a % b)

\* The units modulo n up to k, in increasing order: the obfuscators the
\* library draws (a draw sharing a factor with n has negligible probability
\* for a real key).
IsUnit(n, x) == gcd(x, n) = 1

Units(n, k) == SelectSeq([x \in 1 .. k |-> x], LAMBDA x : IsUnit(n, x))

\* The obfuscator of the cell with index `position_index` under seed `seed`.
Obfuscator(units, seed, position_index) ==
  units[((seed + position_index) % Len(units)) + 1]

(***************************************************************************)
(* State.                                                                  *)
(***************************************************************************)
VARIABLES
  pc,               \* main's position
  board,            \* Player.board: cell -> 0 (water) or 1 (ship)
  guess_board,      \* Player.guess_board: cell -> " ", "X" or "O"
  ships,            \* Player.ships: name, size, coordinates, hits
  encrypted_board,  \* Player.encrypted_board: cell -> ciphertext
  public_key,       \* Player.public_key: n, or None
  private_key,      \* Player.private_key: p, q, hp, hq, p_inverse, or None
  hits_received,    \* Player.hits_received
  ship_idx,         \* setup_board: index of the ship being placed
  turn,             \* main: turn
  game_over,        \* main: game_over
  current_player,   \* main: current_player
  opponent,         \* main: opponent
  guess_row,        \* main: guess_row
  guess_col,        \* main: guess_col
  result,           \* main: result of the last check_hit_homomorphic
  ship_name,        \* main: ship_name of the last check_hit_homomorphic
  attempts,         \* place_ship_random: failed iterations of the running call,
                    \* counted up to MaxAttempts
  displayed         \* display_own_board calls so far: <<owner of the board
                    \* shown, player setting up or to move at that time>>

vars ==
  << pc, board, guess_board, ships, encrypted_board, public_key, private_key,
     hits_received, ship_idx, turn, game_over, current_player, opponent,
     guess_row, guess_col, result, ship_name, attempts, displayed >>

\* Ship.__init__
NewShip(i) ==
  [name |-> Fleet[i].name, size |-> Fleet[i].size, coordinates |-> << >>, hits |-> {}]

\* Player.__init__ for both players, and main up to the first generate_keys.
Init ==
  /\ pc = "keys1"
  /\ board = [p \in Players |-> [r \in Coord |-> [c \in Coord |-> 0]]]
  /\ guess_board = [p \in Players |-> [r \in Coord |-> [c \in Coord |-> " "]]]
  /\ ships = [p \in Players |-> [i \in 1 .. NumShips |-> NewShip(i)]]
  /\ encrypted_board = [p \in Players |-> << >>]
  /\ public_key = [p \in Players |-> None]
  /\ private_key = [p \in Players |-> None]
  /\ hits_received = [p \in Players |-> 0]
  /\ ship_idx = 1
  /\ turn = 0
  /\ game_over = FALSE
  /\ current_player = None
  /\ opponent = None
  /\ guess_row = None
  /\ guess_col = None
  /\ result = None
  /\ ship_name = None
  /\ attempts = 0
  /\ displayed = {}

\* Ship.is_sunk, one hit early.
is_sunk_early(ship) == Cardinality(ship.hits) >= ship.size - 1

\* Ship.is_sunk
is_sunk(ship) == Cardinality(ship.hits) = ship.size

\* Ship.place: `size` contiguous coordinates from (start_row, start_col).
place(size, start_row, start_col, horizontal) ==
  [i \in 1 .. size |->
     IF horizontal THEN <<start_row, start_col + (i - 1)>>
     ELSE <<start_row + (i - 1), start_col>>]

SeqRange(s) == {s[i] : i \in DOMAIN s}

\* Player.has_lost with a strict comparison.
has_lost_strict(player_hits_received) == player_hits_received > total_ship_cells

\* Player.has_lost, true from the first hit on.
has_lost_at_first_hit(player_hits_received) == player_hits_received >= 1

\* Player.has_lost, never true.
has_lost_never(player_hits_received) == FALSE

\* Player.has_lost, of a player's hits_received
has_lost(player_hits_received) == player_hits_received >= total_ship_cells

\* The player main is handling at position `at`, and main's next position.
PlayerAt(at) == IF at \in {"keys1", "setup1", "encrypt1"} THEN player1 ELSE player2

NextPc(at) ==
  CASE at = "keys1" -> "keys2"
    [] at = "keys2" -> "setup1"
    [] at = "setup1" -> "setup2"
    [] at = "setup2" -> "encrypt1"
    [] at = "encrypt1" -> "encrypt2"
    [] at = "encrypt2" -> "loop"

\* Player.generate_keys: two distinct primes of the same length.
generate_keys(p, q) ==
  /\ pc \in {"keys1", "keys2"}
  /\ IsPrime(p) /\ IsPrime(q) /\ p # q
  /\ public_key' = [public_key EXCEPT ![PlayerAt(pc)] = p * q]
  /\ private_key' = [private_key EXCEPT ![PlayerAt(pc)] = PaillierPrivateKey(p, q)]
  /\ pc' = NextPc(pc)
  /\ UNCHANGED << board, guess_board, ships, encrypted_board, hits_received,
                  ship_idx, turn, game_over, current_player, opponent,
                  guess_row, guess_col, result, ship_name, attempts, displayed >>

\* place_ship_random, line 65, without the check (every position accepted).
position_valid_unchecked(p, coords) == TRUE

\* place_ship_random, line 65, refusing every position.
position_valid_never(p, coords) == FALSE

\* place_ship_random, line 65: every cell of the candidate position is water.
position_valid(p, coords) ==
  \A i \in DOMAIN coords : board[p][coords[i][1]][coords[i][2]] = 0

\* One iteration of place_ship_random's loop for the ship setup_board is at,
\* with the random draws (horizontal, row, col); the last ship's placement
\* ends setup_board.
place_ship_random(horizontal, row, col) ==
  LET p == PlayerAt(pc)
      size == ships[p][ship_idx].size
      coords == place(size, row, col, horizontal)
  IN  /\ pc \in {"setup1", "setup2"}
      /\ IF horizontal
           THEN row \in 0 .. 9 /\ col \in 0 .. (10 - size)
           ELSE row \in 0 .. (10 - size) /\ col \in 0 .. 9
      /\ ships' = [ships EXCEPT ![p][ship_idx].coordinates = coords]
      /\ IF position_valid(p, coords)
           THEN /\ board' = [board EXCEPT ![p] =
                               [r \in Coord |-> [c \in Coord |->
                                  IF <<r, c>> \in SeqRange(coords) THEN 1 ELSE board[p][r][c]]]]
                /\ attempts' = 0
                /\ IF ship_idx = NumShips
                     THEN \* setup_board, line 77: self.display_own_board()
                          /\ ship_idx' = 1 /\ pc' = NextPc(pc)
                          /\ displayed' = displayed \cup {<<p, p>>}
                     ELSE /\ ship_idx' = ship_idx + 1 /\ pc' = pc
                          /\ UNCHANGED displayed
           ELSE /\ attempts' = IF attempts < MaxAttempts THEN attempts + 1 ELSE attempts
                /\ UNCHANGED << board, ship_idx, pc, displayed >>
      /\ UNCHANGED << guess_board, encrypted_board, public_key, private_key,
                      hits_received, turn, game_over, current_player, opponent,
                      guess_row, guess_col, result, ship_name >>

\* encrypt_board, line 86, with row and column exchanged.
encrypted_cell_transposed(p, units, seed, row, col) ==
  raw_encrypt(public_key[p], encode(public_key[p], board[p][col][row]),
              Obfuscator(units, seed, row * 10 + col))

\* encrypt_board, lines 84-86: public_key.encrypt(board[row][col]), with the
\* obfuscator of the cell's position_index.
encrypted_cell(p, units, seed, row, col) ==
  raw_encrypt(public_key[p], encode(public_key[p], board[p][row][col]),
              Obfuscator(units, seed, row * 10 + col))

\* main, lines 198-199, with the players exchanged.
first_roles_swapped == <<player2, player1>>

\* main, lines 198-199: current_player, opponent = player1, player2.
first_roles == <<player1, player2>>

\* Player.encrypt_board with the obfuscators of seed `seed`; after the second
\* board main enters the game loop with Alice to move.
encrypt_board(seed) ==
  LET p == PlayerAt(pc)
      n == public_key[p]
      units == Units(n, n - 1)
  IN  /\ pc \in {"encrypt1", "encrypt2"}
      /\ encrypted_board' = [encrypted_board EXCEPT ![p] =
           [r \in Coord |-> [c \in Coord |-> encrypted_cell(p, units, seed, r, c)]]]
      /\ pc' = NextPc(pc)
      /\ IF pc = "encrypt2"
           THEN /\ turn' = 0
                /\ game_over' = FALSE
                /\ current_player' = first_roles[1]
                /\ opponent' = first_roles[2]
           ELSE UNCHANGED << turn, game_over, current_player, opponent >>
      /\ UNCHANGED << board, guess_board, ships, public_key, private_key,
                      hits_received, ship_idx, guess_row, guess_col, result,
                      ship_name, attempts, displayed >>

\* check_hit_homomorphic, line 113, without the blinding.
encrypted_result_unblinded(d, cell, blinding_factor) ==
  encrypted_board[d][cell[1]][cell[2]]

\* check_hit_homomorphic, lines 109-113: the stored ciphertext times the
\* blinding factor.
encrypted_result(d, cell, blinding_factor) ==
  raw_mul(public_key[d], encrypted_board[d][cell[1]][cell[2]], blinding_factor)

\* check_hit_homomorphic, line 116: decrypted with the defender's private key.
decrypted_val(d, cell, blinding_factor) ==
  decode(public_key[d],
         raw_decrypt(private_key[d], encrypted_result(d, cell, blinding_factor)))

\* private_key.decrypt raises OverflowError.
DecryptOverflows(d, cell, blinding_factor) ==
  Overflows(public_key[d],
            raw_decrypt(private_key[d], encrypted_result(d, cell, blinding_factor)))

\* check_hit_homomorphic, line 120, testing for the unblinded bit.
is_hit_unblinded(d, cell, blinding_factor) ==
  decrypted_val(d, cell, blinding_factor) = 1

\* check_hit_homomorphic, line 120, with the test inverted.
is_hit_inverted(d, cell, blinding_factor) ==
  decrypted_val(d, cell, blinding_factor) = 0

\* check_hit_homomorphic, line 120
is_hit(d, cell, blinding_factor) == decrypted_val(d, cell, blinding_factor) # 0

\* The first ship of d, in list order, that has `cell` among its coordinates
\* (0: none).
ShipAt(d, cell) ==
  IF \E i \in 1 .. NumShips : cell \in SeqRange(ships[d][i].coordinates)
    THEN CHOOSE i \in 1 .. NumShips :
           /\ cell \in SeqRange(ships[d][i].coordinates)
           /\ \A j \in 1 .. (i - 1) : cell \notin SeqRange(ships[d][j].coordinates)
    ELSE 0

\* check_hit_homomorphic, lines 125-130, without the membership test.
mark_hit_everywhere(d, cell) ==
  [i \in 1 .. NumShips |-> [ships[d][i] EXCEPT !.hits = @ \cup {cell}]]

\* check_hit_homomorphic, lines 125-130, with the hit given to the first ship
\* of the list.
mark_hit_first_ship(d, cell) ==
  [ships[d] EXCEPT ![1].hits = @ \cup {cell}]

\* check_hit_homomorphic, lines 125-130: d's ships after the first ship
\* lying on `cell` has taken the hit.
mark_hit(d, cell) ==
  IF ShipAt(d, cell) = 0 THEN ships[d]
  ELSE [ships[d] EXCEPT ![ShipAt(d, cell)].hits = @ \cup {cell}]

\* Player.check_hit_homomorphic without line 123 (hits_received += 1).
check_hit_homomorphic_uncounted(d, row, col, blinding_factor) ==
  LET cell == <<row, col>>
      i == ShipAt(d, cell)
      hit_ships == mark_hit(d, cell)
  IN  IF is_hit(d, cell, blinding_factor)
        THEN [result |-> IF i # 0 /\ is_sunk(hit_ships[i]) THEN "sunk" ELSE "hit",
              ship_name |-> IF i # 0 /\ is_sunk(hit_ships[i])
                              THEN hit_ships[i].name ELSE None,
              hits_received |-> hits_received[d],
              ships |-> hit_ships]
        ELSE [result |-> "miss", ship_name |-> None,
              hits_received |-> hits_received[d], ships |-> ships[d]]

\* Player.check_hit_homomorphic on defender d: what it returns, and d's
\* hits_received and ships afterwards.
check_hit_homomorphic(d, row, col, blinding_factor) ==
  LET cell == <<row, col>>
      i == ShipAt(d, cell)
      hit_ships == mark_hit(d, cell)
  IN  IF is_hit(d, cell, blinding_factor)
        THEN [result |-> IF i # 0 /\ is_sunk(hit_ships[i]) THEN "sunk" ELSE "hit",
              ship_name |-> IF i # 0 /\ is_sunk(hit_ships[i])
                              THEN hit_ships[i].name ELSE None,
              hits_received |-> hits_received[d] + 1,
              ships |-> hit_ships]
        ELSE [result |-> "miss", ship_name |-> None,
              hits_received |-> hits_received[d], ships |-> ships[d]]

\* get_player_guess: an answer that is not two numbers in 0..9 is refused
\* and asked again.
get_player_guess_invalid(row, col) ==
  /\ pc = "loop"
  /\ ~(0 <= row /\ row <= 9 /\ 0 <= col /\ col <= 9)
  /\ UNCHANGED vars

\* main, line 216, never finding the cell guessed.
already_guessed_never(a, row, col) == FALSE

\* main, line 216, looking at the other player's guess board.
already_guessed_opponent(a, row, col) ==
  guess_board[IF a = player1 THEN player2 ELSE player1][row][col] # " "

\* main, line 216: the current player's guess board has the cell marked.
already_guessed(a, row, col) == guess_board[a][row][col] # " "

\* main, lines 216-218, with the refused guess using up the turn.
main_loop_repeat_consumes ==
  /\ current_player' = opponent
  /\ opponent' = current_player
  /\ displayed' = displayed \cup {<<current_player, current_player>>}
  /\ UNCHANGED << pc, board, guess_board, ships, hits_received, game_over,
                  result, ship_name >>

\* main, lines 208-218, with line 208 showing the opponent's board.
main_loop_repeat_shows_opponent ==
  /\ displayed' = displayed \cup {<<opponent, current_player>>}
  /\ UNCHANGED << pc, board, guess_board, ships, hits_received, game_over,
                  current_player, opponent, result, ship_name >>

\* main, lines 216-218: "You already guessed that position!", continue.
main_loop_repeat ==
  /\ displayed' = displayed \cup {<<current_player, current_player>>}
  /\ UNCHANGED << pc, board, guess_board, ships, hits_received, game_over,
                  current_player, opponent, result, ship_name >>

\* main, lines 224-258: the query, the mark on the guess board, the winner
\* check and the change of roles.
main_loop_query(row, col, blinding_factor) ==
  LET cell == <<row, col>>
      r == check_hit_homomorphic(opponent, row, col, blinding_factor)
  IN  IF DecryptOverflows(opponent, cell, blinding_factor)
        THEN \* OverflowError leaves main
             /\ pc' = "crashed"
             /\ displayed' = displayed \cup {<<current_player, current_player>>}
             /\ UNCHANGED << board, guess_board, ships, hits_received,
                             game_over, current_player, opponent, result,
                             ship_name >>
        ELSE /\ result' = r.result
             /\ ship_name' = r.ship_name
             /\ hits_received' = [hits_received EXCEPT ![opponent] = r.hits_received]
             /\ ships' = [ships EXCEPT ![opponent] = r.ships]
             /\ guess_board' = [guess_board EXCEPT ![current_player][row][col] =
                                  IF r.result \in {"hit", "sunk"} THEN "X" ELSE "O"]
             /\ IF has_lost(r.hits_received)
                  THEN \* lines 249-252: both final boards are shown
                       /\ game_over' = TRUE
                       /\ pc' = "done"
                       /\ displayed' = displayed \cup
                            {<<current_player, current_player>>,
                             <<player1, current_player>>,
                             <<player2, current_player>>}
                       /\ UNCHANGED << current_player, opponent >>
                  ELSE /\ current_player' = opponent
                       /\ opponent' = current_player
                       /\ displayed' = displayed \cup {<<current_player, current_player>>}
                       /\ UNCHANGED << pc, game_over >>
             /\ UNCHANGED board

\* One iteration of main's game loop (lines 201-258), with the guess
\* get_player_guess returned and the blinding factor the defender draws.
main_loop(row, col, blinding_factor) ==
  /\ pc = "loop"
  /\ ~game_over
  /\ 0 <= row /\ row <= 9 /\ 0 <= col /\ col <= 9
  /\ 1 <= blinding_factor /\ blinding_factor <= BlindingMax
  /\ turn' = turn + 1
  /\ guess_row' = row
  /\ guess_col' = col
  /\ IF already_guessed(current_player, row, col)
       THEN main_loop_repeat
       ELSE main_loop_query(row, col, blinding_factor)
  /\ UNCHANGED << encrypted_board, public_key, private_key, ship_idx, attempts >>

(***************************************************************************)
(* The inputs the model draws.                                             *)
(***************************************************************************)
\* Row-major rank of a cell, and the cell of a rank.
Rank(c) == c[1] * BoardSize + c[2]

CellOfRank(k) == <<k \div BoardSize, k % BoardSize>>

Guessed(a) == {c \in Cells : guess_board[a][c[1]][c[2]] # " "}

\* The rank of the first cell from rank k on that a has not guessed
\* (BoardSize * BoardSize: none).
RECURSIVE FirstUnguessedFrom(_, _)
FirstUnguessedFrom(a, k) ==
  IF k >= BoardSize * BoardSize THEN k
  ELSE IF guess_board[a][k \div BoardSize][k % BoardSize] = " " THEN k
  ELSE FirstUnguessedFrom(a, k + 1)

\* Accepted queries so far, and rejected (repeated) guesses so far.
Accepted == Cardinality(Guessed(Alice)) + Cardinality(Guessed(Bob))

Rejected == turn - Accepted

\* The guesses the input source gives: the first unguessed cell in row-major
\* order, or one of the cells just before it while repeats are allowed.
GuessRanks(f, back) ==
  {k \in (f - back) .. f : k >= 0 /\ k < BoardSize * BoardSize}

GuessInputs ==
  IF pc # "loop" THEN {}
  ELSE {CellOfRank(k) :
          k \in GuessRanks(FirstUnguessedFrom(current_player, 0),
                           IF Rejected < MaxRejected THEN GuessBack ELSE 0)}

\* Answers get_player_guess refuses: a row below and a column above the range.
InvalidGuesses == {<<-1, 0>>, <<0, 10>>}

PlaceDraw(horizontal, line, offset) ==
  place_ship_random(horizontal,
                    IF horizontal THEN line ELSE offset,
                    IF horizontal THEN offset ELSE line)

Next ==
  \/ \E p, q \in PrimesOfBits(PrimeBits) : generate_keys(p, q)
  \/ \E horizontal \in BOOLEAN, line \in 0 .. MaxLine, offset \in 0 .. MaxOffset :
       PlaceDraw(horizontal, line, offset)
  \/ \E seed \in 0 .. MaxSeed : encrypt_board(seed)
  \/ \E cell \in GuessInputs, blinding_factor \in 1 .. MaxBlind :
       main_loop(cell[1], cell[2], blinding_factor)
  \/ \E g \in InvalidGuesses : get_player_guess_invalid(g[1], g[2])

Spec == Init /\ [][Next]_vars

\* The setup of the first board alone, with wider draws.
NextSetup ==
  \/ \E p, q \in PrimesOfBits(PrimeBits) : generate_keys(p, q)
  \/ \E horizontal \in BOOLEAN, line \in 0 .. SetupMaxLine,
        offset \in 0 .. SetupMaxOffset :
       pc = "setup1" /\ PlaceDraw(horizontal, line, offset)

SpecSetup == Init /\ [][NextSetup]_vars

\* The rank of the last cell up to rank k that a has not guessed (-1: none).
RECURSIVE LastUnguessedFrom(_, _)
LastUnguessedFrom(a, k) ==
  IF k < 0 THEN k
  ELSE IF guess_board[a][k \div BoardSize][k % BoardSize] = " " THEN k
  ELSE LastUnguessedFrom(a, k - 1)

\* An input source that works through the board from the last cell back:
\* the last unguessed cell in row-major order, or one of the cells just
\* after it while repeats are allowed.
LateGuessInputs ==
  IF pc # "loop" THEN {}
  ELSE LET l == LastUnguessedFrom(current_player, BoardSize * BoardSize - 1)
       IN  {CellOfRank(k) :
              k \in {j \in l .. (l + (IF Rejected < MaxRejected THEN GuessBack ELSE 0)) :
                       j >= 0 /\ j < BoardSize * BoardSize}}

\* The game with that input source: the guesses reach the ships last.
NextLate ==
  \/ \E p, q \in PrimesOfBits(PrimeBits) : generate_keys(p, q)
  \/ \E horizontal \in BOOLEAN, line \in 0 .. MaxLine, offset \in 0 .. MaxOffset :
       PlaceDraw(horizontal, line, offset)
  \/ \E seed \in 0 .. MaxSeed : encrypt_board(seed)
  \/ \E cell \in LateGuessInputs, blinding_factor \in 1 .. MaxBlind :
       main_loop(cell[1], cell[2], blinding_factor)
  \/ \E g \in InvalidGuesses : get_player_guess_invalid(g[1], g[2])

SpecLate == Init /\ [][NextLate]_vars

\* An iteration of place_ship_random whose draw is a free position.
PlacedDraw ==
  \E horizontal \in BOOLEAN, line \in 0 .. SetupMaxLine,
     offset \in 0 .. SetupMaxOffset :
    pc = "setup1" /\ PlaceDraw(horizontal, line, offset) /\ board' # board

\* The same under fair random sampling: random.choice and random.randint
\* give every value of their range again and again, so while free positions
\* stay among the draws one of them is eventually drawn.
SpecSetupFair == SpecSetup /\ WF_vars(PlacedDraw)


(***************************************************************************)
(* Steps of the game loop, as seen across one transition.                  *)
(***************************************************************************)
\* One iteration of main's loop ran.
LoopStep == pc = "loop" /\ turn' = turn + 1

\* The iteration went through check_hit_homomorphic and the winner check.
QueryStep == LoopStep /\ (current_player' # current_player \/ pc' = "done")

\* The iteration was given a cell its player had already guessed.
RepeatedGuessStep ==
  LoopStep /\ guess_board[current_player][guess_row'][guess_col'] # " "

\* Both boards are encrypted: main is in, or past, the game loop.
InGame == pc \in {"loop", "done"}

Occupied(p) == {c \in Cells : board[p][c[1]][c[2]] = 1}

\* setup_board has returned for player p.
SetupDone(p) ==
  IF p = player1 THEN pc \notin {"keys1", "keys2", "setup1"}
  ELSE pc \notin {"keys1", "keys2", "setup1", "setup2"}

(***************************************************************************)
(* C1.  For every cell of the defender's board and every blinding factor,  *)
(* check_hit_homomorphic reports a hit ("hit" or "sunk") exactly when the  *)
(* defender's plaintext cell is 1 and "miss" exactly when it is 0: for     *)
(* every cell and factor at the start of the game, and for every query the *)
(* game makes.                                                             *)
(***************************************************************************)
ClassifiedAsBoard(res, b) ==
  /\ res \in {"hit", "sunk", "miss"}
  /\ res \in {"hit", "sunk"} <=> b = 1
  /\ res = "miss" <=> b = 0

ProtocolCorrect ==
  /\ [](pc = "loop" /\ turn = 0 =>
          \A d \in Players, r \in Coord, c \in Coord, k \in 1 .. MaxBlind :
            ClassifiedAsBoard(check_hit_homomorphic(d, r, c, k).result, board[d][r][c]))
  /\ [][QueryStep =>
          ClassifiedAsBoard(result', board[opponent][guess_row'][guess_col'])]_vars

\* A game in which a query has hit and the last one missed.
ProtocolCorrectWitness ==
  pc = "loop" /\ result = "miss" /\ hits_received[Bob] > 0 /\ hits_received[Alice] > 0

(***************************************************************************)
(* C2.  From the completion of encrypt_board on, every stored ciphertext   *)
(* of a player decrypts, under that player's private key, to the player's  *)
(* plaintext cell; and no iteration of the game loop changes a stored      *)
(* ciphertext or a plaintext cell.                                         *)
(***************************************************************************)
DecryptsToBoard(p) ==
  \A r \in Coord, c \in Coord :
    LET m == raw_decrypt(private_key[p], encrypted_board[p][r][c])
    IN  ~Overflows(public_key[p], m) /\ decode(public_key[p], m) = board[p][r][c]

EncryptionCorrect ==
  /\ [](\A p \in Players : encrypted_board[p] # << >> => DecryptsToBoard(p))
  /\ [][InGame => encrypted_board' = encrypted_board /\ board' = board]_vars

\* Both boards encrypted and queried, with hits on both sides.
EncryptionCorrectWitness ==
  /\ pc = "loop" /\ turn > 4
  /\ hits_received[Alice] > 0 /\ hits_received[Bob] > 0
  /\ \A p \in Players : DOMAIN encrypted_board[p] = Coord

(***************************************************************************)
(* C3.  Once setup_board has placed a player's whole fleet: no two ships   *)
(* share a coordinate, every ship has exactly `size` coordinates, all      *)
(* coordinates lie on the board, and the board has exactly 16 occupied     *)
(* cells.                                                                  *)
(***************************************************************************)
PlacementValid ==
  \A p \in Players :
    SetupDone(p) =>
      /\ \A i \in 1 .. NumShips, j \in 1 .. NumShips :
           i # j => SeqRange(ships[p][i].coordinates)
                      \cap SeqRange(ships[p][j].coordinates) = {}
      /\ \A i \in 1 .. NumShips :
           /\ Len(ships[p][i].coordinates) = ships[p][i].size
           /\ Cardinality(SeqRange(ships[p][i].coordinates)) = ships[p][i].size
           /\ SeqRange(ships[p][i].coordinates) \subseteq (0 .. 9) \X (0 .. 9)
      /\ Cardinality(Occupied(p)) = 16

\* A finished fleet with a horizontal Carrier and a vertical Destroyer.
PlacementValidWitness ==
  /\ SetupDone(player1)
  /\ ships[player1][1].coordinates[2][1] = ships[player1][1].coordinates[1][1]
  /\ ships[player1][5].coordinates[2][2] = ships[player1][5].coordinates[1][2]

(***************************************************************************)
(* C4.  A query that hits returns ("sunk", name) exactly when its cell     *)
(* completes the hit set of the ship lying there, with that ship's name,   *)
(* and ("hit", None) otherwise; the cell is new to the hit set, so a ship  *)
(* of size n answers "hit" n-1 times and "sunk" the n-th; a sunk ship      *)
(* stays sunk.                                                             *)
(***************************************************************************)
SinkingCorrect ==
  /\ [][QueryStep /\ result' # "miss" =>
          LET cell == <<guess_row', guess_col'>>
              i == ShipAt(opponent, cell)
          IN  /\ i # 0
              /\ cell \notin ships[opponent][i].hits
              /\ ships'[opponent][i].hits = ships[opponent][i].hits \cup {cell}
              /\ result' = "sunk" <=>
                   Cardinality(ships'[opponent][i].hits) = ships[opponent][i].size
              /\ result' = "sunk" => ship_name' = ships[opponent][i].name
              /\ result' = "hit" =>
                   /\ ship_name' = None
                   /\ Cardinality(ships'[opponent][i].hits) < ships[opponent][i].size]_vars
  /\ [][\A p \in Players, i \in 1 .. NumShips :
          is_sunk(ships[p][i]) => is_sunk(ships'[p][i])]_vars

\* The Destroyer was just sunk while another ship of that player floats.
SinkingCorrectWitness ==
  /\ pc = "loop" /\ result = "sunk" /\ ship_name = "Destroyer"
  /\ is_sunk(ships[current_player][5])
  /\ ~is_sunk(ships[current_player][1])
  /\ ships[current_player][1].hits # {}

(***************************************************************************)
(* C5.  In every reachable state, for each player, hits_received <= 16,    *)
(* and has_lost holds exactly when hits_received = 16, which is exactly    *)
(* when all five of the player's ships are sunk.                           *)
(***************************************************************************)
HasLostExactly ==
  \A p \in Players :
    /\ hits_received[p] <= 16
    /\ has_lost(hits_received[p]) <=> hits_received[p] = 16
    /\ has_lost(hits_received[p]) <=> \A i \in 1 .. NumShips : is_sunk(ships[p][i])

\* A finished game: the loser has 16 hits, the winner fewer.
HasLostExactlyWitness ==
  /\ pc = "done"
  /\ has_lost(hits_received[opponent])
  /\ ~has_lost(hits_received[current_player])
  /\ hits_received[current_player] > 0

(***************************************************************************)
(* C6.  A cell of a guess board, once set, never changes; every query      *)
(* targets a cell its attacker had not guessed (so no cell is queried      *)
(* twice by the same attacker) and sets exactly that cell; and the cell is *)
(* never one of an already sunk ship.                                      *)
(***************************************************************************)
GuessSetOnce ==
  /\ [][\A p \in Players, r \in Coord, c \in Coord :
          guess_board[p][r][c] # " " => guess_board'[p][r][c] = guess_board[p][r][c]]_vars
  /\ [][QueryStep =>
          /\ guess_board[current_player][guess_row'][guess_col'] = " "
          /\ guess_board'[current_player][guess_row'][guess_col'] # " "
          /\ \A i \in 1 .. NumShips :
               is_sunk(ships[opponent][i]) =>
                 <<guess_row', guess_col'>> \notin SeqRange(ships[opponent][i].coordinates)]_vars

\* A repeated guess was refused after both players had made guesses.
GuessSetOnceWitness ==
  /\ pc = "loop" /\ Rejected = 1 /\ Accepted >= 2
  /\ \E i \in 1 .. NumShips : is_sunk(ships[opponent][i])

(***************************************************************************)
(* C7.  A guess at a cell the attacker has already guessed is refused      *)
(* before check_hit_homomorphic runs: both guess boards, both              *)
(* hits_received counters, all ships, the last result and the roles are    *)
(* unchanged, so the same player guesses again.                            *)
(***************************************************************************)
RepeatedGuessRejected ==
  [][RepeatedGuessStep =>
       /\ guess_board' = guess_board
       /\ hits_received' = hits_received
       /\ ships' = ships
       /\ board' = board
       /\ encrypted_board' = encrypted_board
       /\ result' = result /\ ship_name' = ship_name
       /\ current_player' = current_player /\ opponent' = opponent
       /\ pc' = "loop" /\ game_over' = game_over]_vars

\* Alice, having guessed, is refused a repeat of her guess.
RepeatedGuessRejectedWitness ==
  /\ pc = "loop" /\ Rejected = 1 /\ Accepted = 2 /\ turn = 3
  /\ current_player = Alice
  /\ guess_board[Alice][guess_row][guess_col] # " "

(***************************************************************************)
(* C8.  The roles swap on every query that does not end the game and on no *)
(* other step; the accepted queries alternate between the players,         *)
(* starting with Alice.                                                    *)
(***************************************************************************)
RolesAlternate ==
  /\ [][InGame =>
          IF LoopStep /\ guess_board' # guess_board /\ ~game_over'
            THEN current_player' = opponent /\ opponent' = current_player
            ELSE current_player' = current_player /\ opponent' = opponent]_vars
  /\ [][LoopStep /\ guess_board' # guess_board =>
          /\ guess_board'[opponent] = guess_board[opponent]
          /\ current_player = (IF Accepted % 2 = 0 THEN Alice ELSE Bob)
          /\ opponent = (IF Accepted % 2 = 0 THEN Bob ELSE Alice)]_vars
  /\ [](pc = "loop" => /\ current_player = (IF Accepted % 2 = 0 THEN Alice ELSE Bob)
                       /\ opponent = (IF Accepted % 2 = 0 THEN Bob ELSE Alice))

\* Bob to move after three accepted queries and a refused one.
RolesAlternateWitness ==
  pc = "loop" /\ Accepted = 3 /\ Rejected = 1 /\ current_player = Bob

(***************************************************************************)
(* C9.  A query by attacker A against defender D changes, of the players'  *)
(* state, only D's hits_received, the hit set of at most one ship of D and *)
(* exactly one cell of A's guess board; A's board, ships and               *)
(* hits_received, D's guess board, all ship coordinates, keys and          *)
(* encrypted boards stay as they were.                                     *)
(***************************************************************************)
QueryFrame ==
  [][QueryStep =>
       LET A == current_player
           D == opponent
       IN  /\ Cardinality({c \in Cells :
                 guess_board'[A][c[1]][c[2]] # guess_board[A][c[1]][c[2]]}) = 1
           /\ Cardinality({i \in 1 .. NumShips :
                 ships'[D][i].hits # ships[D][i].hits}) <= 1
           /\ \A i \in 1 .. NumShips :
                /\ ships'[D][i].coordinates = ships[D][i].coordinates
                /\ ships'[D][i].name = ships[D][i].name
                /\ ships'[D][i].size = ships[D][i].size
           /\ board' = board
           /\ ships'[A] = ships[A]
           /\ hits_received'[A] = hits_received[A]
           /\ guess_board'[D] = guess_board[D]
           /\ public_key' = public_key
           /\ private_key' = private_key
           /\ encrypted_board' = encrypted_board]_vars

\* A query has just hit a ship of the defender.
QueryFrameWitness ==
  /\ pc = "loop" /\ result = "hit" /\ Rejected = 0
  /\ guess_board[opponent][guess_row][guess_col] = "X"
  /\ hits_received[current_player] > 1

(***************************************************************************)
(* C10.  For a cell and two different blinding factors the classification  *)
(* is the same; the decrypted values differ when the cell is occupied and  *)
(* are both 0 when it is water.  Stated for every cell at the start of the *)
(* game and for the cell of the last guess later on.                       *)
(***************************************************************************)
\* The original statement: the decrypted values always differ.
BlindedValuesDiffer(d, cell) ==
  \A k1 \in 1 .. MaxBlind, k2 \in 1 .. MaxBlind :
    k1 # k2 =>
      /\ decrypted_val(d, cell, k1) # decrypted_val(d, cell, k2)
      /\ is_hit(d, cell, k1) = is_hit(d, cell, k2)

\* As amended: they differ on an occupied cell and are 0 on water.
BlindedValuesDifferOnShips(d, cell) ==
  \A k1 \in 1 .. MaxBlind, k2 \in 1 .. MaxBlind :
    k1 # k2 =>
      /\ is_hit(d, cell, k1) = is_hit(d, cell, k2)
      /\ board[d][cell[1]][cell[2]] = 1 =>
           decrypted_val(d, cell, k1) # decrypted_val(d, cell, k2)
      /\ board[d][cell[1]][cell[2]] = 0 =>
           decrypted_val(d, cell, k1) = 0 /\ decrypted_val(d, cell, k2) = 0

BlindingIndependenceOriginal ==
  /\ pc = "loop" /\ turn = 0 =>
       \A d \in Players, c \in Cells : BlindedValuesDiffer(d, c)
  /\ InGame /\ turn > 0 =>
       \A d \in Players : BlindedValuesDiffer(d, <<guess_row, guess_col>>)

BlindingIndependence ==
  /\ pc = "loop" /\ turn = 0 =>
       \A d \in Players, c \in Cells : BlindedValuesDifferOnShips(d, c)
  /\ InGame /\ turn > 0 =>
       \A d \in Players : BlindedValuesDifferOnShips(d, <<guess_row, guess_col>>)

\* The last guess hit an occupied cell, after an earlier miss on water.
BlindingIndependenceWitness ==
  /\ pc = "loop" /\ result = "hit"
  /\ board[current_player][guess_row][guess_col] = 1
  /\ \E c \in Cells : guess_board[opponent][c[1]][c[2]] = "O"

(***************************************************************************)
(* C11.  In every state of a game (after setup), every ship's hit set is a *)
(* subset of that ship's coordinates, and a ship is sunk if and only if    *)
(* all of its coordinates are in its hit set.                              *)
(***************************************************************************)
HitsWithinShip ==
  InGame =>
    \A p \in Players, i \in 1 .. NumShips :
      /\ ships[p][i].hits \subseteq SeqRange(ships[p][i].coordinates)
      /\ is_sunk(ships[p][i]) <=>
           SeqRange(ships[p][i].coordinates) \subseteq ships[p][i].hits

\* One of Bob's ships is sunk, another is hit but afloat, a third untouched.
HitsWithinShipWitness ==
  /\ pc = "loop"
  /\ \E i, j, k \in 1 .. NumShips :
       /\ is_sunk(ships[Bob][i])
       /\ ships[Bob][j].hits # {} /\ ~is_sunk(ships[Bob][j])
       /\ ships[Bob][k].hits = {}

PlacementAttemptsBounded ==
  attempts >= MaxAttempts => pc \notin {"setup1", "setup2"}

(***************************************************************************)
(* C14.  A refused repeated guess does not consume a turn: the turn        *)
(* counter advances only on accepted queries, so after every loop          *)
(* iteration, and at game over ("Total turns"), it equals the number of    *)
(* accepted queries.                                                       *)
(***************************************************************************)
TurnCountsAccepted ==
  /\ InGame => turn = Accepted
  /\ pc = "done" => turn = Accepted

(***************************************************************************)
(* C15.  Placing the fleet in manifest order on an initially empty board,  *)
(* whatever positions the earlier ships took, the next ship has an         *)
(* in-bounds position whose cells are all water; a failed attempt leaves   *)
(* the board unchanged; hence under fair random sampling every             *)
(* place_ship_random call, and setup_board, terminates.                    *)
(***************************************************************************)
\* Some position of place_ship_random's whole range is free for p's ship.
FreePositionExists(p, size) ==
  \E horizontal \in BOOLEAN, line \in Coord, offset \in 0 .. (BoardSize - size) :
    position_valid(p, place(size,
                            IF horizontal THEN line ELSE offset,
                            IF horizontal THEN offset ELSE line,
                            horizontal))

PlacementTerminates ==
  /\ [](pc = "setup1" => FreePositionExists(player1, ships[player1][ship_idx].size))
  /\ [][pc = "setup1" /\ pc' = "setup1" /\ ship_idx' = ship_idx => board' = board]_vars
  /\ [][pc = "setup1" /\ board' # board =>
          IF ship_idx = NumShips THEN pc' = "setup2"
          ELSE pc' = "setup1" /\ ship_idx' = ship_idx + 1]_vars
  /\ (pc = "setup1") ~> (pc = "setup2")

\* The last ship is still to place after failed attempts, 14 cells taken.
PlacementTerminatesWitness ==
  /\ pc = "setup1" /\ ship_idx = NumShips /\ attempts = MaxAttempts
  /\ Cardinality(Occupied(player1)) = 14

(***************************************************************************)
(* C16.  Every blinding factor check_hit_homomorphic uses is an integer in *)
(* 1..999999 and lies below the message-space bound (max_int) of the       *)
(* defender's key, so decryption never overflows, the decrypted value is   *)
(* k * b with no wrap-around, and an occupied cell never decrypts to 0.    *)
(* The program's key has at least DEFAULT_KEYSIZE bits, so                 *)
(* 999999 < 2^20 <= 2^(DEFAULT_KEYSIZE - 3) < max_int; the model keeps     *)
(* that relation between its factors and its key.                          *)
(***************************************************************************)
\* k * b comes back from the cell of defender d, for every factor drawn.
BlindedProductExact(d, cell) ==
  \A k \in 1 .. MaxBlind :
    /\ 1 <= k /\ k <= BlindingMax
    /\ k < max_int(public_key[d])
    /\ ~DecryptOverflows(d, cell, k)
    /\ decrypted_val(d, cell, k) = k * board[d][cell[1]][cell[2]]
    /\ board[d][cell[1]][cell[2]] = 1 => decrypted_val(d, cell, k) # 0

Other(p) == IF p = player1 THEN player2 ELSE player1

RECURSIVE SumHits(_, _)
SumHits(p, i) ==
  IF i = 0 THEN 0 ELSE Cardinality(ships[p][i].hits) + SumHits(p, i - 1)

MarkCount(p, mark) ==
  Cardinality({c \in Cells : guess_board[p][c[1]][c[2]] = mark})

HitsAccounted ==
  InGame =>
    \A P \in Players :
      /\ hits_received[P] = SumHits(P, NumShips)
      /\ hits_received[P] = MarkCount(Other(P), "X")

\* Both players have taken hits on more than one ship, and misses were made.
HitsAccountedWitness ==
  /\ pc = "loop"
  /\ \A P \in Players :
       /\ hits_received[P] >= 3
       /\ Cardinality({i \in 1 .. NumShips : ships[P][i].hits # {}}) >= 2
       /\ MarkCount(P, "O") >= 1

(***************************************************************************)
(* C18.  Guess-board marks are truthful in every reachable state: for each *)
(* player P with opponent Q and every cell, an "X" on P's guess board      *)
(* means Q's board has a ship there, and an "O" means it has water there.  *)
(***************************************************************************)
MarksTruthful ==
  \A P \in Players, r \in Coord, c \in Coord :
    /\ guess_board[P][r][c] = "X" => board[Other(P)][r][c] = 1
    /\ guess_board[P][r][c] = "O" => board[Other(P)][r][c] = 0

\* Both players have marked hits and misses, on boards that differ.
MarksTruthfulWitness ==
  /\ pc = "loop" /\ board[Alice] # board[Bob]
  /\ \A P \in Players : MarkCount(P, "X") >= 2 /\ MarkCount(P, "O") >= 2

(***************************************************************************)
(* C19.  The game ends at the first accepted query after which the         *)
(* defender's hits_received reaches 16; the attacker of that query is the  *)
(* declared winner (current_player when main prints the winner); no query  *)
(* is processed and no roles are swapped after that; and in every          *)
(* reachable state at most one player satisfies has_lost.                  *)
(***************************************************************************)
GameEndsAtSixteen ==
  /\ [](InGame => (game_over <=> \E p \in Players : hits_received[p] >= 16))
  /\ [](game_over <=> pc = "done")
  /\ [](~(has_lost(hits_received[Alice]) /\ has_lost(hits_received[Bob])))
  /\ [](pc = "done" => /\ hits_received[opponent] = 16
                       /\ hits_received[current_player] < 16
                       /\ guess_board[current_player][guess_row][guess_col] = "X")
  /\ [][QueryStep /\ hits_received'[opponent] >= 16 =>
          /\ hits_received[opponent] = 15
          /\ game_over' /\ pc' = "done"
          /\ current_player' = current_player /\ opponent' = opponent]_vars
  /\ [][~game_over]_vars

\* Bob has won with the query that sank Alice's last ship.
GameEndsAtSixteenWitness ==
  /\ pc = "done" /\ game_over /\ current_player = Bob /\ opponent = Alice
  /\ result = "sunk" /\ hits_received[Alice] = 16 /\ hits_received[Bob] > 0

(***************************************************************************)
(* C20.  While the game is not over the current attacker always has an     *)
(* unguessed cell; every accepted query fills one more guess cell and no   *)
(* other step fills any, and the filled cells never exceed 199, so a game  *)
(* whose prompts keep being answered with unguessed cells is over after at *)
(* most 199 accepted queries; a player who has guessed every cell has won. *)
(***************************************************************************)
GameTerminates ==
  /\ [](pc = "loop" =>
         /\ ~game_over
         /\ FirstUnguessedFrom(current_player, 0) < BoardSize * BoardSize)
  /\ [](Accepted <= 199)
  /\ [](\A P \in Players :
          FirstUnguessedFrom(P, 0) >= BoardSize * BoardSize =>
            pc = "done" /\ current_player = P /\ has_lost(hits_received[Other(P)]))
  /\ [][LoopStep =>
          IF guess_board[current_player][guess_row'][guess_col'] # " "
            THEN guess_board' = guess_board
            ELSE /\ guess_board'[current_player][guess_row'][guess_col'] # " "
                 /\ guess_board' = [guess_board EXCEPT ![current_player][guess_row'][guess_col'] =
                                      guess_board'[current_player][guess_row'][guess_col']]]_vars
  /\ [][~LoopStep => guess_board' = guess_board]_vars

\* The longest game: Alice wins with the 199th accepted query, on her last
\* unguessed cell.
GameTerminatesWitness ==
  /\ pc = "done" /\ Accepted = 199 /\ current_player = Alice
  /\ Cardinality(Guessed(Alice)) = 100 /\ Cardinality(Guessed(Bob)) = 99

=============================================================================
